---- MODULE Spec2Model ----
(***************************************************************************)
(* Incremental make engine: the staleness evaluator and the lifecycle      *)
(* hooks of jtcmake/frontend/rule.py, driven by the execution engine       *)
(* (core/make.py, core/make_mt.py; not among the sources, modelled from    *)
(* section 4.3 and 5 of the specification).                                *)
(***************************************************************************)
EXTENDS Integers, Sequences, FiniteSets, TLC

\* ------------------------------------------------------------- bounds
MaxTime == 2
MaxRuns == 2
MaxEnv == 1
MaxThreads == 2
MaxRules == 2
MaxGroups == 1

\* -------------------------------------------------------- rule graph
\* A (two outputs) -> B (one plain and two tracked-content inputs) -> C,
\* and X, which shares nothing with the others.
Rules == {"A", "B", "C", "X"}
Files == {"v", "a1", "a2", "b", "c", "x"}
Hashes == {0, 1}

yfiles(r) ==
    CASE r = "A" -> <<"a1", "a2">>
      [] r = "B" -> <<"b">>
      [] r = "C" -> <<"c">>
      [] r = "X" -> <<"x">>

\* (DeepKey, file) pairs; vfile tells an IVFile from a plain IFile.
xfiles(r) ==
    CASE r = "A" -> <<>>
      [] r = "B" -> << [k |-> <<"0">>, f |-> "a2", vfile |-> FALSE],
                       [k |-> <<"1">>, f |-> "a1", vfile |-> TRUE],
                       [k |-> <<"2", "p">>, f |-> "v", vfile |-> TRUE] >>
      [] r = "C" -> << [k |-> <<"0">>, f |-> "b", vfile |-> FALSE] >>
      [] r = "X" -> <<>>

Range(s) == {s[i] : i \in 1..Len(s)}
YSet(r) == Range(yfiles(r))
XSet(r) == {x.f : x \in Range(xfiles(r))}

\* The rules owning an input of r.
DepTable == [r \in Rules |-> {d \in Rules : d # r /\ YSet(d) \cap XSet(r) # {}}]

deplist(r) == DepTable[r]

\* Files read through a content hash by some rule.
Tracked == {x.f : x \in {y \in UNION {Range(xfiles(r)) : r \in Rules} : y.vfile}}

VARIABLES
    fs,       \* file -> [exists, mtime, hash]: the filesystem
    cache,    \* rule -> its Metadata Cache record (metadata_fname)
    clock,    \* the time a write stamps on a file
    phase,    \* "idle" between make calls, "running" inside one, "done" at its end
    opts,     \* the arguments of the current (or last) make call
    state,    \* rule -> its state in the current (or last) run
    updated,  \* updated_rules of the run
    events,   \* rule -> the events emitted for it in the run, in order
    invoked,  \* rule -> the hooks and method invoked for it in the run
    wrote,    \* rule -> the outputs its method wrote in the run
    aborted,  \* StopOnFail events emitted in the run
    runs,     \* make calls so far
    envLeft,  \* external changes still allowed
    prev,     \* what the previous make call was and how it ended
    changed,  \* an external change happened since the last make call ended
    hist,     \* how the current make call relates to the previous one
    tree,     \* the group tree: the children of its groups, the root's _path_str_set
    last      \* how the last registration call ended

vars == <<fs, cache, clock, phase, opts, state, updated, events, invoked,
          wrote, aborted, runs, envLeft, prev, changed, hist, tree, last>>

\* What the registration calls change; a make call leaves it alone.
reg == <<tree, last>>

\* What a make call and the environment change; a registration leaves it alone.
make_vars == <<fs, cache, clock, phase, opts, state, updated, events, invoked,
               wrote, aborted, runs, envLeft, prev, changed, hist>>

Absent == [exists |-> FALSE, mtime |-> 0, hash |-> 0]
NoCache == [exists |-> FALSE, recs |-> <<>>]

\* ------------------------------------------------- metadata cache, JSON
\* json.dumps turns the DeepKey tuple into an array, json.loads gives a list.
json_roundtrip(res) ==
    [i \in 1..Len(res) |->
        [k |-> [tag |-> "list", segs |-> res[i].k.segs], h |-> res[i].h, t |-> res[i].t]]

tuple(k) == [tag |-> "tuple", segs |-> k.segs]

create_vfile_hashes(vfiles, F) ==
    json_roundtrip([i \in 1..Len(vfiles) |->
        [k |-> [tag |-> "tuple", segs |-> vfiles[i].k],
         h |-> F[vfiles[i].f].hash, t |-> F[vfiles[i].f].mtime]])

save_vfile_hashes(vfiles, F) == [exists |-> TRUE, recs |-> create_vfile_hashes(vfiles, F)]

load_vfile_hashes(c) == IF ~c.exists THEN <<>> ELSE c.recs

IsV(x) == x.vfile

\* Variant: the new entries are added to the record found on disk.
update_xvfile_hashes_appends(r, F, c) ==
    LET xvfiles == SelectSeq(xfiles(r), IsV)
    IN IF Len(xvfiles) > 0
       THEN [exists |-> TRUE,
             recs |-> load_vfile_hashes(c) \o create_vfile_hashes(xvfiles, F)]
       ELSE c

\* Rule.update_xvfile_hashes: the record is written only when the rule has
\* tracked-content inputs.
update_xvfile_hashes(r, F, c) ==
    LET xvfiles == SelectSeq(xfiles(r), IsV)
    IN IF Len(xvfiles) > 0 THEN save_vfile_hashes(xvfiles, F) ELSE c

\* -------------------------------------------------- staleness evaluator
Min(S) == CHOOSE m \in S : \A n \in S : m <= n

\* check_inputs with a missing input reported as an invalid one.
RECURSIVE check_inputs_one_error(_, _, _, _)
check_inputs_one_error(xs, i, dry_run, F) ==
    IF i > Len(xs) THEN "ok"
    ELSE IF ~F[xs[i].f].exists \/ F[xs[i].f].mtime = 0
         THEN (IF dry_run THEN "stale" ELSE "invalid_input")
    ELSE check_inputs_one_error(xs, i + 1, dry_run, F)

\* check_inputs without the test of the sentinel mtime.
RECURSIVE check_inputs_no_sentinel(_, _, _, _)
check_inputs_no_sentinel(xs, i, dry_run, F) ==
    IF i > Len(xs) THEN "ok"
    ELSE IF ~F[xs[i].f].exists
         THEN (IF dry_run THEN "stale" ELSE "missing_input")
    ELSE check_inputs_no_sentinel(xs, i + 1, dry_run, F)

\* The first loop of should_update: the verdict of the first input that is
\* missing or carries mtime 0, "ok" when there is none.
RECURSIVE check_inputs(_, _, _, _)
check_inputs(xs, i, dry_run, F) ==
    IF i > Len(xs) THEN "ok"
    ELSE IF ~F[xs[i].f].exists
         THEN (IF dry_run THEN "stale" ELSE "missing_input")
    ELSE IF F[xs[i].f].mtime = 0
         THEN (IF dry_run THEN "stale" ELSE "invalid_input")
    ELSE check_inputs(xs, i + 1, dry_run, F)

\* The dry-run test of the dependencies: one of them is in updated_rules.
dep_updated_never(r, updated_rules, dry_run) == FALSE

dep_updated(r, updated_rules, dry_run) ==
    dry_run /\ (\E d \in deplist(r) : d \in updated_rules)

\* newer_plain with plain inputs left to the cache check like tracked ones.
newer_plain_never(r, oldest_y, F) == FALSE

\* The second loop: a plain input newer than oldest_y returns at once.
newer_plain(r, oldest_y, F) ==
    \E i \in 1..Len(xfiles(r)) :
        /\ F[xfiles(r)[i].f].mtime > oldest_y
        /\ ~xfiles(r)[i].vfile

\* Variant: every tracked-content input is collected, newer or not.
newer_vfiles_all(r, oldest_y, F) ==
    SelectSeq(xfiles(r), LAMBDA x : x.vfile)

\* Of the second loop: the tracked-content inputs newer than oldest_y.
newer_vfiles(r, oldest_y, F) ==
    LET Newer(x) == F[x.f].mtime > oldest_y /\ x.vfile
    IN SelectSeq(xfiles(r), Newer)

hash_dic(c) == {[k |-> tuple(e.k), h |-> e.h, t |-> e.t] : e \in Range(load_vfile_hashes(c))}

\* vfile_changed with the hash never compared.
vfile_changed_no_hash(x, c, F) ==
    LET key == [tag |-> "tuple", segs |-> x.k]
        hit == {e \in hash_dic(c) : e.k = key}
    IN hit = {}

\* vfile_changed with a changed mtime alone counting as a change.
vfile_changed_mtime_alone(x, c, F) ==
    LET key == [tag |-> "tuple", segs |-> x.k]
        hit == {e \in hash_dic(c) : e.k = key}
    IN IF hit = {} THEN TRUE
       ELSE LET e == CHOOSE e \in hit : TRUE
            IN F[x.f].mtime # e.t \/ F[x.f].hash # e.h

\* Variant: any entry of the record counts, whatever its DeepKey.
vfile_changed_any_key(x, c, F) ==
    \A e \in hash_dic(c) : F[x.f].mtime # e.t /\ F[x.f].hash # e.h

\* The third loop, over the collected tracked-content inputs.
vfile_changed(x, c, F) ==
    LET key == [tag |-> "tuple", segs |-> x.k]
        hit == {e \in hash_dic(c) : e.k = key}
    IN IF hit = {} THEN TRUE
       ELSE LET e == CHOOSE e \in hit : TRUE
            IN F[x.f].mtime # e.t /\ F[x.f].hash # e.h

\* The hash of x is recomputed: it has a cache entry with another mtime
\* (the left operand of the "and" of the third loop).
hash_needed(x, c, F) ==
    LET key == [tag |-> "tuple", segs |-> x.k]
        hit == {e \in hash_dic(c) : e.k = key}
    IN hit # {} /\ F[x.f].mtime # (CHOOSE e \in hit : TRUE).t

\* The third loop as it runs: the inputs whose get_hash is called before the
\* loop returns at the first input that makes the rule stale.
RECURSIVE hash_calls_loop(_, _, _, _)
hash_calls_loop(xvfiles, i, c, F) ==
    IF i > Len(xvfiles) THEN {}
    ELSE IF vfile_changed(xvfiles[i], c, F)
         THEN (IF hash_needed(xvfiles[i], c, F) THEN {xvfiles[i]} ELSE {})
    ELSE (IF hash_needed(xvfiles[i], c, F) THEN {xvfiles[i]} ELSE {})
             \cup hash_calls_loop(xvfiles, i + 1, c, F)

\* The inputs whose get_hash is called by should_update.
get_hash_calls(r, updated_rules, dry_run, F, c) ==
    IF check_inputs(xfiles(r), 1, dry_run, F) # "ok" THEN {}
    ELSE IF dep_updated(r, updated_rules, dry_run) THEN {}
    ELSE IF \E f \in YSet(r) : ~F[f].exists THEN {}
    ELSE LET oldest_y == Min({F[f].mtime : f \in YSet(r)})
         IN IF oldest_y <= 0 \/ newer_plain(r, oldest_y, F) THEN {}
            ELSE hash_calls_loop(newer_vfiles(r, oldest_y, F), 1, c, F)

\* Variant: judged on the newest output that exists, not on the oldest of all.
should_update_newest_output(r, updated_rules, dry_run, F, c) ==
    LET pre == check_inputs(xfiles(r), 1, dry_run, F)
    IN IF pre # "ok" THEN pre
       ELSE IF dep_updated(r, updated_rules, dry_run) THEN "stale"
       ELSE IF \A f \in YSet(r) : ~F[f].exists THEN "stale"
       ELSE LET newest_y == -Min({-F[f].mtime : f \in {g \in YSet(r) : F[g].exists}})
            IN IF newest_y <= 0 THEN "stale"
               ELSE IF newer_plain(r, newest_y, F) THEN "stale"
               ELSE IF \E x \in Range(newer_vfiles(r, newest_y, F)) :
                         vfile_changed(x, c, F)
                    THEN "stale"
               ELSE "uptodate"

\* Rule.should_update: "stale" (True), "uptodate" (False), or the raised error.
should_update(r, updated_rules, dry_run, F, c) ==
    LET pre == check_inputs(xfiles(r), 1, dry_run, F)
    IN IF pre # "ok" THEN pre
       ELSE IF dep_updated(r, updated_rules, dry_run) THEN "stale"
       ELSE IF \E f \in YSet(r) : ~F[f].exists THEN "stale"
       ELSE LET oldest_y == Min({F[f].mtime : f \in YSet(r)})
            IN IF oldest_y <= 0 THEN "stale"
               ELSE IF newer_plain(r, oldest_y, F) THEN "stale"
               ELSE IF \E x \in Range(newer_vfiles(r, oldest_y, F)) :
                         vfile_changed(x, c, F)
                    THEN "stale"
               ELSE "uptodate"

\* ------------------------------------------------------ lifecycle hooks
\* Rule.preprocess: makedirs of the outputs' parents, errors swallowed; no
\* file's existence, mtime or content changes.
preprocess(r, F) == F

\* The loop of the failure path: os.utime raises on a file that is not there,
\* which leaves the outputs after it (and the cache record) as they are.
RECURSIVE reset_mtimes(_, _, _)
reset_mtimes(ys, i, F) ==
    IF i > Len(ys) THEN [fs |-> F, raised |-> FALSE]
    ELSE IF ~F[ys[i]].exists THEN [fs |-> F, raised |-> TRUE]
    ELSE reset_mtimes(ys, i + 1, [F EXCEPT ![ys[i]].mtime = 0])

\* postprocess with the success path writing no cache record.
postprocess_no_save(r, succ, F, c) ==
    IF succ
    THEN [fs |-> F, cache |-> c, raised |-> FALSE]
    ELSE LET z == reset_mtimes(yfiles(r), 1, F)
         IN IF z.raised
            THEN [fs |-> z.fs, cache |-> c, raised |-> TRUE]
            ELSE [fs |-> z.fs, cache |-> NoCache, raised |-> FALSE]

\* Rule.postprocess.
postprocess(r, succ, F, c) ==
    IF succ
    THEN IF \E x \in Range(xfiles(r)) : x.vfile /\ ~F[x.f].exists
         THEN [fs |-> F, cache |-> c, raised |-> TRUE]
         ELSE [fs |-> F, cache |-> update_xvfile_hashes(r, F, c), raised |-> FALSE]
    ELSE LET z == reset_mtimes(yfiles(r), 1, F)
         IN IF z.raised
            THEN [fs |-> z.fs, cache |-> c, raised |-> TRUE]
            ELSE [fs |-> z.fs, cache |-> NoCache, raised |-> FALSE]

\* ------------------------------------------------------------ event sink
\* What log_make_event writes for an event: the writer calls, in order.
log_make_event(e) ==
    CASE e.type = "PreProcError" ->
           <<[level |-> "warning", text |-> "trace"],
             [level |-> "error", text |-> "error during preprocessing"]>>
      [] e.type = "ExecError" ->
           <<[level |-> "warning", text |-> "trace"],
             [level |-> "error", text |-> "method failed"]>>
      [] e.type = "PostProcError" ->
           <<[level |-> "warning", text |-> "trace"],
             [level |-> "error", text |-> "error during post-processing"]>>
      [] e.type = "FatalError" ->
           <<[level |-> "warning", text |-> "trace"],
             [level |-> "error", text |-> "Fatal error"]>>
      [] e.type = "Skip" ->
           IF e.is_direct_target THEN <<[level |-> "info", text |-> "Skip"]>>
           ELSE <<[level |-> "debug", text |-> "Skip"]>>
      [] e.type = "Start" -> <<[level |-> "info", text |-> "Make"]>>
      [] e.type = "Done" -> <<[level |-> "info", text |-> "Done"]>>
      [] e.type = "DryRun" -> <<[level |-> "info", text |-> "Make (dry)"]>>
      [] e.type = "UpdateInfeasible" -> <<[level |-> "error", text |-> "Cannot make"]>>
      [] e.type = "StopOnFail" ->
           <<[level |-> "warning", text |-> "Execution aborted due to an error"]>>
      [] OTHER -> <<[level |-> "warning", text |-> "Unhandled event"]>>

\* --------------------------------------------- group tree (lightmake/frontend)
\* Strings are sequences of characters. The working directory is "/", and
\* "l" is a symbolic link to "p".
Names == {"a", "add", "add_group"}

\* A name that is neither a str nor an int.
BadName == "1.5"

\* The names that are Python identifiers.
Identifiers == {"a", "add", "add_group", "_x"}

\* The names that start with an underscore.
Underscored == {"_x"}

_ismembername(name) == name \in Identifiers /\ name \notin Underscored

Simple(s) == [nopfx |-> FALSE, s |-> s]

\* nopfx(path): the path is taken as it is.
nopfx(s) == [nopfx |-> TRUE, s |-> s]

\* The output structures a caller passes: tuples of simple paths.
PathChoices ==
    { <<>>,
      <<Simple(<<"p">>)>>, <<Simple(<<"l">>)>>, <<Simple(<<"/", "p">>)>>,
      <<Simple(<<"d", "/", "p">>)>>, <<nopfx(<<"p">>)>>,
      <<Simple(<<"p">>), Simple(<<"q">>)>> }

\* The arguments bound to the method: the SELF keys among them, and whether
\* a target of a rule of another root is among them.
ArgChoices ==
    [selfs : {{}, {1}, {3}}, dep : {"none"}] \cup [selfs : {{}}, dep : {"foreign"}]

MethodChoices == {"callable", "NOP", "other"}

PrefixChoices ==
    {[t |-> "str", s |-> <<"d">>], [t |-> "NoPfxPath", s |-> <<"d", "/">>],
     [t |-> "other", s |-> <<>>]}

isabs(s) == Len(s) > 0 /\ s[1] = "/"

\* os.path.join
join(a, b) ==
    IF isabs(b) THEN b
    ELSE IF a = <<>> \/ a[Len(a)] = "/" THEN a \o b
    ELSE a \o <<"/">> \o b

\* os.path.realpath: absolute, the link resolved.
realpath(s) ==
    LET abs == IF isabs(s) THEN s ELSE <<"/">> \o s
    IN [i \in 1..Len(abs) |-> IF abs[i] = "l" THEN "p" ELSE abs[i]]

_add_pfx_to_simple_path(path_prefix, simple_path) ==
    IF simple_path.nopfx THEN simple_path.s
    ELSE IF isabs(simple_path.s) THEN simple_path.s
    ELSE path_prefix \o simple_path.s

\* map_nested over a tuple of paths.
map_nested(path, path_prefix) ==
    [i \in 1..Len(path) |-> _add_pfx_to_simple_path(path_prefix, path[i])]

\* flatten_nested of a tuple of paths: its leaves, in order.
flatten_nested(path) == path

EmptyTree == [children |-> {}, path_str_set |-> {}]

\* A call returns, or raises exc with message msg.
Returned == [exc |-> "none", msg |-> ""]

Raised(exc, msg) == [exc |-> exc, msg |-> msg]

NoCall == Raised("none", "no call yet")

\* A group is named by the names on the way to it from the root, <<>>.
Groups == {<<>>} \cup {c.parent \o <<c.name>> : c \in {d \in tree.children : d.kind = "group"}}

\* self._children of group g
_children(g) == {c \in tree.children : c.parent = g}

RootPrefix == <<>>

_path_prefix(g) ==
    IF g = <<>> THEN RootPrefix
    ELSE (CHOOSE c \in tree.children :
              c.kind = "group" /\ c.parent \o <<c.name>> = g).prefix

\* g.attr finds the child in the instance __dict__ before the method of the
\* class: lines 68-69 and 101-102 put every child with a member name there.
shadowed(g, attr) == \E c \in _children(g) : c.name = attr /\ _ismembername(c.name)

\* create_rule without the test of the empty output structure.
create_rule_any_path(path, args) ==
    IF args.dep = "foreign"
    THEN Raised("ValueError", "Rule may not depend on Rules under different root Group")
    ELSE IF \E k \in args.selfs : k \notin 1..Len(path)
    THEN Raised("ValueError", "Invalid keys for SELF")
    ELSE IF args.selfs # {} /\ \E i \in 1..Len(path) :
                                   path[i] \notin {path[k] : k \in args.selfs}
    THEN Raised("ValueError", "is not be passed to the method")
    ELSE Returned

\* create_rule: how it ends.
create_rule(path, args) ==
    IF Len(flatten_nested(path)) = 0
    THEN Raised("ValueError", "path must contain at least one str")
    ELSE IF args.dep = "foreign"
    THEN Raised("ValueError", "Rule may not depend on Rules under different root Group")
    ELSE IF \E k \in args.selfs : k \notin 1..Len(path)
    THEN Raised("ValueError", "Invalid keys for SELF")
    ELSE IF args.selfs # {} /\ \E i \in 1..Len(path) :
                                   path[i] \notin {path[k] : k \in args.selfs}
    THEN Raised("ValueError", "is not be passed to the method")
    ELSE Returned

\* dict assignment: self._children[name] = child
set_child(children, child) ==
    {c \in children : ~(c.parent = child.parent /\ c.name = child.name)} \cup {child}

\* add_result with the paths compared as they are written.
add_result_as_written(g, name, path, method, args) ==
    LET full == map_nested(path, _path_prefix(g))
        written_paths == Range(flatten_nested(full))
    IN IF shadowed(g, "add") THEN Raised("TypeError", "object is not callable")
       ELSE IF name = BadName THEN Raised("ValueError", "name must be str or int")
       ELSE IF \E c \in _children(g) : c.name = name
       THEN Raised("KeyError", "name already exists")
       ELSE IF method = "other" THEN Raised("ValueError", "method must be a callable")
       ELSE IF written_paths \cap tree.path_str_set # {}
       THEN Raised("ValueError", "path is already used by another rule")
       ELSE create_rule(full, args)

\* How the call g.add(name, path, method, *args) ends.
add_result(g, name, path, method, args) ==
    LET full == map_nested(path, _path_prefix(g))
        realpaths == {realpath(p) : p \in Range(flatten_nested(full))}
    IN IF shadowed(g, "add") THEN Raised("TypeError", "object is not callable")
       ELSE IF name = BadName THEN Raised("ValueError", "name must be str or int")
       ELSE IF \E c \in _children(g) : c.name = name
       THEN Raised("KeyError", "name already exists")
       ELSE IF method = "other" THEN Raised("ValueError", "method must be a callable")
       ELSE IF realpaths \cap tree.path_str_set # {}
       THEN Raised("ValueError", "path is already used by another rule")
       ELSE create_rule(full, args)

\* Variant: the paths are claimed before create_rule is called.
add_tree_claims_first(g, name, path, method, args) ==
    LET full == map_nested(path, _path_prefix(g))
        realpaths == {realpath(p) : p \in Range(flatten_nested(full))}
        res == add_result(g, name, path, method, args)
        trg_ptr == [parent |-> g, name |-> name, kind |-> "rule", prefix |-> <<>>,
                    outputs |-> full]
    IN IF res = Returned
       THEN [children |-> set_child(tree.children, trg_ptr),
             path_str_set |-> tree.path_str_set \cup realpaths]
       ELSE IF res = create_rule(full, args)
       THEN [tree EXCEPT !.path_str_set = @ \cup realpaths]
       ELSE tree

\* Group.add, the tree it leaves: the paths are claimed and the child is
\* stored after create_rule returned; nothing is written before.
add_tree(g, name, path, method, args) ==
    LET full == map_nested(path, _path_prefix(g))
        realpaths == {realpath(p) : p \in Range(flatten_nested(full))}
        res == add_result(g, name, path, method, args)
        trg_ptr == [parent |-> g, name |-> name, kind |-> "rule", prefix |-> <<>>,
                    outputs |-> full]
    IN IF res = Returned
       THEN [children |-> set_child(tree.children, trg_ptr),
             path_str_set |-> tree.path_str_set \cup realpaths]
       ELSE tree

\* Group.add
add(g, name, path, method, args) ==
    LET res == add_result(g, name, path, method, args)
    IN /\ res = Returned => Cardinality({c \in tree.children : c.kind = "rule"}) < MaxRules
       /\ tree' = add_tree(g, name, path, method, args)
       /\ last' = res
       /\ UNCHANGED make_vars

\* add_group_result without the test of the name.
add_group_result_any_name(g, name, path_prefix) ==
    IF shadowed(g, "add_group") THEN Raised("TypeError", "object is not callable")
    ELSE IF name = BadName THEN Raised("ValueError", "name must be str or int")
    ELSE IF path_prefix.t \notin {"str", "NoPfxPath"}
    THEN Raised("ValueError", "path_prefix must be str or NoPfxPath")
    ELSE Returned

\* How the call g.add_group(name, path_prefix) ends.
add_group_result(g, name, path_prefix) ==
    IF shadowed(g, "add_group") THEN Raised("TypeError", "object is not callable")
    ELSE IF name = BadName THEN Raised("ValueError", "name must be str or int")
    ELSE IF \E c \in _children(g) : c.name = name
    THEN Raised("KeyError", "name already exists in this Group")
    ELSE IF path_prefix.t \notin {"str", "NoPfxPath"}
    THEN Raised("ValueError", "path_prefix must be str or NoPfxPath")
    ELSE Returned

\* Group.add_group
add_group(g, name, path_prefix) ==
    LET res == add_group_result(g, name, path_prefix)
        pfx == IF path_prefix.t = "str" THEN join(_path_prefix(g), path_prefix.s)
               ELSE path_prefix.s
        r == [parent |-> g, name |-> name, kind |-> "group", prefix |-> pfx,
              outputs |-> <<>>]
    IN /\ res = Returned => Cardinality({c \in tree.children : c.kind = "group"}) < MaxGroups
       /\ tree' = IF res = Returned
                  THEN [tree EXCEPT !.children = set_child(@, r)]
                  ELSE tree
       /\ last' = res
       /\ UNCHANGED make_vars

\* ----------------------------------------------------- execution engine
\* An event of the engine; is_direct_target matters to Skip alone.
Event(type, r) ==
    [type |-> type, is_direct_target |-> type = "Skip" /\ r \in opts.targets]

\* The types of the events emitted for r in the run, in order.
emitted(r) == [i \in 1..Len(events[r]) |-> events[r][i].type]

\* What the writer received for r in the run.
RECURSIVE written(_, _)
written(r, i) ==
    IF i > Len(events[r]) THEN <<>>
    ELSE log_make_event(events[r][i]) \o written(r, i + 1)

Terminal == {"Done", "Failed", "Skipped", "Unreachable"}

\* The transitive closure of the targets over the dependency edges.
RECURSIVE closure_of(_)
closure_of(T) ==
    LET T2 == T \cup UNION {deplist(r) : r \in T}
    IN IF T2 = T THEN T ELSE closure_of(T2)

ClosureTable == [T \in SUBSET Rules |-> closure_of(T)]

closure(T) == ClosureTable[T]

subgraph == closure(opts.targets)

\* workers with one worker more than asked for.
workers_one_more(nthreads) == IF nthreads >= 2 THEN nthreads + 1 ELSE 2

\* _make_wrapper: make_multi_thread for nthreads >= 2, the sequential make
\* otherwise.
workers(nthreads) == IF nthreads >= 2 THEN nthreads ELSE 1

Running == {r \in Rules : state[r] = "Running"}

\* halted with stop_on_fail ignored.
halted_never == FALSE

\* stop_on_fail: a failed rule halts the dispatch of new rules.
halted == opts.stop_on_fail /\ \E r \in Rules : state[r] = "Failed"

\* ready without the wait for the dependencies.
ready_no_wait(r) ==
    /\ phase = "running"
    /\ state[r] = "Pending"
    /\ ~halted
    /\ Cardinality(Running) < workers(opts.nthreads)

\* A rule a worker may take next.
ready(r) ==
    /\ phase = "running"
    /\ state[r] = "Pending"
    /\ \A d \in deplist(r) : state[d] \in Terminal
    /\ ~halted
    /\ Cardinality(Running) < workers(opts.nthreads)

\* infeasible with Unreachable dependencies not counted.
infeasible_failed_only(r) == \E d \in deplist(r) : state[d] = "Failed"

infeasible(r) == \E d \in deplist(r) : state[d] \in {"Failed", "Unreachable"}

verdict(r) == should_update(r, updated, opts.dry_run, fs, cache[r])

TargetChoices == {{"C", "X"}, {"B"}}

Init ==
    /\ fs = [f \in Files |-> IF f = "v" THEN [exists |-> TRUE, mtime |-> 1, hash |-> 0]
                                        ELSE Absent]
    /\ cache = [r \in Rules |-> NoCache]
    /\ clock = 1
    /\ phase = "idle"
    /\ opts \in [targets : {{}}, dry_run : {FALSE}, stop_on_fail : BOOLEAN,
                 nthreads : 1..MaxThreads]
    /\ state = [r \in Rules |-> "None"]
    /\ updated = {}
    /\ events = [r \in Rules |-> <<>>]
    /\ invoked = [r \in Rules |-> <<>>]
    /\ wrote = [r \in Rules |-> {}]
    /\ aborted = 0
    /\ runs = 0
    /\ envLeft = MaxEnv
    /\ prev = [valid |-> FALSE, targets |-> {}, dry_run |-> FALSE, ok |-> FALSE]
    /\ changed = FALSE
    /\ hist = [rerun |-> FALSE, prev_ok |-> FALSE]
    /\ tree = EmptyTree
    /\ last = NoCall

\* make(targets, dry_run, stop_on_fail, nthreads): a new run context. A
\* behaviour keeps one stop_on_fail and one nthreads over its make calls.
StartRun(T, dry) ==
    /\ phase = "idle"
    /\ runs < MaxRuns
    /\ phase' = "running"
    /\ runs' = runs + 1
    /\ opts' = [opts EXCEPT !.targets = T, !.dry_run = dry]
    /\ state' = [r \in Rules |-> IF r \in closure(T) THEN "Pending" ELSE "None"]
    /\ hist' = [rerun |-> prev.valid /\ ~changed /\ prev.targets = T
                           /\ ~prev.dry_run /\ ~dry,
                prev_ok |-> prev.ok]
    /\ UNCHANGED reg
    /\ UNCHANGED <<fs, cache, clock, updated, events, invoked, wrote, aborted,
                   envLeft, prev, changed>>

\* MarkUnreachable that never takes the rule.
MarkUnreachable_never(r) == FALSE /\ UNCHANGED vars

\* A dependency ended Failed or Unreachable.
MarkUnreachable(r) ==
    /\ ready(r)
    /\ infeasible(r)
    /\ state' = [state EXCEPT ![r] = "Unreachable"]
    /\ events' = [events EXCEPT ![r] = Append(@, Event("UpdateInfeasible", r))]
    /\ UNCHANGED reg
    /\ UNCHANGED <<fs, cache, clock, phase, opts, updated, invoked, wrote, aborted,
                   runs, envLeft, prev, changed, hist>>

\* The staleness evaluation raised (outside dry-run only): the rule fails
\* before its method starts.
CheckFail(r) ==
    /\ ready(r)
    /\ ~infeasible(r)
    /\ verdict(r) \in {"missing_input", "invalid_input"}
    /\ state' = [state EXCEPT ![r] = "Failed"]
    /\ events' = [events EXCEPT ![r] = Append(@, Event("PreProcError", r))]
    /\ UNCHANGED reg
    /\ UNCHANGED <<fs, cache, clock, phase, opts, updated, invoked, wrote, aborted,
                   runs, envLeft, prev, changed, hist>>

Skip(r) ==
    /\ ready(r)
    /\ ~infeasible(r)
    /\ verdict(r) = "uptodate"
    /\ state' = [state EXCEPT ![r] = "Skipped"]
    /\ events' = [events EXCEPT ![r] = Append(@, Event("Skip", r))]
    /\ UNCHANGED reg
    /\ UNCHANGED <<fs, cache, clock, phase, opts, updated, invoked, wrote, aborted,
                   runs, envLeft, prev, changed, hist>>

\* DryRun with the method run all the same.
DryRun_executes(r) ==
    /\ ready(r)
    /\ ~infeasible(r)
    /\ verdict(r) = "stale"
    /\ opts.dry_run
    /\ state' = [state EXCEPT ![r] = "Done"]
    /\ updated' = updated \cup {r}
    /\ events' = [events EXCEPT ![r] = Append(@, Event("DryRun", r))]
    /\ fs' = [f \in Files |-> IF f \in YSet(r)
                               THEN [exists |-> TRUE, mtime |-> clock, hash |-> 0]
                               ELSE fs[f]]
    /\ UNCHANGED reg
    /\ UNCHANGED <<cache, clock, phase, opts, invoked, wrote, aborted,
                   runs, envLeft, prev, changed, hist>>

\* Stale in a dry run: the rule would run.
DryRun(r) ==
    /\ ready(r)
    /\ ~infeasible(r)
    /\ verdict(r) = "stale"
    /\ opts.dry_run
    /\ state' = [state EXCEPT ![r] = "Done"]
    /\ updated' = updated \cup {r}
    /\ events' = [events EXCEPT ![r] = Append(@, Event("DryRun", r))]
    /\ UNCHANGED reg
    /\ UNCHANGED <<fs, cache, clock, phase, opts, invoked, wrote, aborted,
                   runs, envLeft, prev, changed, hist>>

\* Stale outside a dry run: pre-processing, then the method starts.
Start(r) ==
    /\ ready(r)
    /\ ~infeasible(r)
    /\ verdict(r) = "stale"
    /\ ~opts.dry_run
    /\ fs' = preprocess(r, fs)
    /\ state' = [state EXCEPT ![r] = "Running"]
    /\ events' = [events EXCEPT ![r] = Append(@, Event("Start", r))]
    /\ invoked' = [invoked EXCEPT ![r] = Append(@, "preprocess")]
    /\ UNCHANGED reg
    /\ UNCHANGED <<cache, clock, phase, opts, updated, wrote, aborted,
                   runs, envLeft, prev, changed, hist>>

\* What a method may do before it returns or raises: the outputs it writes.
\* The method of A is any method; the others write all their outputs or none.
Writes(r) == IF r = "A" THEN SUBSET YSet(r) ELSE {{}, YSet(r)}

\* What the method leaves on disk: it wrote the outputs W.
method_effect(W, F) ==
    [f \in Files |-> IF f \in W THEN [exists |-> TRUE, mtime |-> clock, hash |-> 0]
                     ELSE F[f]]

\* FinishOk with the Done event emitted by success post-processing as well.
FinishOk_two_events(r, W) ==
    /\ phase = "running"
    /\ state[r] = "Running"
    /\ LET p == postprocess(r, TRUE, method_effect(W, fs), cache[r])
       IN /\ fs' = p.fs
          /\ cache' = [cache EXCEPT ![r] = p.cache]
    /\ state' = [state EXCEPT ![r] = "Done"]
    /\ events' = [events EXCEPT ![r] = @ \o <<Event("Done", r), Event("Done", r)>>]
    /\ invoked' = [invoked EXCEPT ![r] = @ \o <<"method", "postprocess_succ">>]
    /\ updated' = updated \cup {r}
    /\ wrote' = [wrote EXCEPT ![r] = W]
    /\ UNCHANGED reg
    /\ UNCHANGED <<clock, phase, opts, aborted, runs, envLeft, prev, changed, hist>>

\* The method returned: success post-processing.
FinishOk(r, W) ==
    /\ phase = "running"
    /\ state[r] = "Running"
    /\ LET p == postprocess(r, TRUE, method_effect(W, fs), cache[r])
           q == postprocess(r, FALSE, p.fs, p.cache)
       IN IF p.raised
          THEN /\ fs' = q.fs
               /\ cache' = [cache EXCEPT ![r] = q.cache]
               /\ state' = [state EXCEPT ![r] = "Failed"]
               /\ events' = [events EXCEPT ![r] = Append(@, Event("PostProcError", r))]
               /\ invoked' = [invoked EXCEPT ![r] =
                                 @ \o <<"method", "postprocess_succ", "postprocess_fail">>]
               /\ updated' = updated
          ELSE /\ fs' = p.fs
               /\ cache' = [cache EXCEPT ![r] = p.cache]
               /\ state' = [state EXCEPT ![r] = "Done"]
               /\ events' = [events EXCEPT ![r] = Append(@, Event("Done", r))]
               /\ invoked' = [invoked EXCEPT ![r] = @ \o <<"method", "postprocess_succ">>]
               /\ updated' = updated \cup {r}
    /\ wrote' = [wrote EXCEPT ![r] = W]
    /\ UNCHANGED reg
    /\ UNCHANGED <<clock, phase, opts, aborted, runs, envLeft, prev, changed, hist>>

\* FinishFail with the failed rule put back in the queue.
FinishFail_requeues(r, W) ==
    /\ phase = "running"
    /\ state[r] = "Running"
    /\ LET p == postprocess(r, FALSE, method_effect(W, fs), cache[r])
       IN /\ fs' = p.fs
          /\ cache' = [cache EXCEPT ![r] = p.cache]
    /\ state' = [state EXCEPT ![r] = "Pending"]
    /\ events' = [events EXCEPT ![r] = Append(@, Event("ExecError", r))]
    /\ invoked' = [invoked EXCEPT ![r] = @ \o <<"method", "postprocess_fail">>]
    /\ wrote' = [wrote EXCEPT ![r] = W]
    /\ UNCHANGED reg
    /\ UNCHANGED <<clock, phase, opts, updated, aborted, runs, envLeft, prev, changed, hist>>

\* The method raised: failure post-processing.
FinishFail(r, W) ==
    /\ phase = "running"
    /\ state[r] = "Running"
    /\ LET p == postprocess(r, FALSE, method_effect(W, fs), cache[r])
       IN /\ fs' = p.fs
          /\ cache' = [cache EXCEPT ![r] = p.cache]
    /\ state' = [state EXCEPT ![r] = "Failed"]
    /\ events' = [events EXCEPT ![r] = Append(@, Event("ExecError", r))]
    /\ invoked' = [invoked EXCEPT ![r] = @ \o <<"method", "postprocess_fail">>]
    /\ wrote' = [wrote EXCEPT ![r] = W]
    /\ UNCHANGED reg
    /\ UNCHANGED <<clock, phase, opts, updated, aborted, runs, envLeft, prev, changed, hist>>

\* Every executed method wrote all of its outputs, none older than a plain
\* input of its rule.
clean_run ==
    \A r \in subgraph :
        /\ state[r] \in {"Done", "Skipped"}
        /\ state[r] = "Done" =>
              /\ wrote[r] = YSet(r)
              /\ \A x \in Range(xfiles(r)) :
                     ~x.vfile => \A y \in YSet(r) : fs[x.f].mtime <= fs[y].mtime

\* The run is over: nothing runs, and nothing more is dispatched.
RunOver ==
    /\ phase = "running"
    /\ Running = {}
    /\ halted \/ \A r \in subgraph : state[r] # "Pending"

\* The engine stops; with stop_on_fail and a failure it emits the abort event.
EndRun ==
    /\ RunOver
    /\ phase' = "done"
    /\ aborted' = IF halted THEN aborted + 1 ELSE aborted
    /\ UNCHANGED reg
    /\ UNCHANGED <<fs, cache, clock, opts, state, updated, events, invoked, wrote,
                   runs, envLeft, prev, changed, hist>>

\* make returns: the run context is gone.
Return ==
    /\ phase = "done"
    /\ phase' = "idle"
    /\ prev' = [valid |-> TRUE, targets |-> opts.targets, dry_run |-> opts.dry_run,
                ok |-> clean_run]
    /\ changed' = FALSE
    /\ opts' = [opts EXCEPT !.targets = {}, !.dry_run = FALSE]
    /\ state' = [r \in Rules |-> "None"]
    /\ updated' = {}
    /\ events' = [r \in Rules |-> <<>>]
    /\ invoked' = [r \in Rules |-> <<>>]
    /\ wrote' = [r \in Rules |-> {}]
    /\ aborted' = 0
    /\ hist' = [rerun |-> FALSE, prev_ok |-> FALSE]
    /\ UNCHANGED reg
    /\ UNCHANGED <<fs, cache, clock, runs, envLeft>>

\* --------------------------------------------------------- environment
Tick ==
    /\ clock < MaxTime
    /\ clock' = clock + 1
    /\ UNCHANGED reg
    /\ UNCHANGED <<fs, cache, phase, opts, state, updated, events, invoked, wrote,
                   aborted, runs, envLeft, prev, changed, hist>>

EnvStep(F) ==
    /\ phase = "idle"
    /\ envLeft > 0
    /\ envLeft' = envLeft - 1
    /\ fs' = F
    /\ changed' = TRUE
    /\ UNCHANGED reg
    /\ UNCHANGED <<cache, clock, phase, opts, state, updated, events, invoked, wrote,
                   aborted, runs, prev, hist>>

\* os.utime from outside: any modification time, the content untouched.
Touch(f, t) ==
    /\ fs[f].exists
    /\ fs[f].mtime # t
    /\ EnvStep([fs EXCEPT ![f].mtime = t])

\* An outside edit of a tracked file's content.
Edit(f, h) ==
    /\ fs[f].exists
    /\ fs[f].hash # h
    /\ EnvStep([fs EXCEPT ![f] = [exists |-> TRUE, mtime |-> clock, hash |-> h]])

Remove(f) ==
    /\ fs[f].exists
    /\ EnvStep([fs EXCEPT ![f] = Absent])

Next ==
    \/ \E T \in TargetChoices, dry \in BOOLEAN : StartRun(T, dry)
    \/ \E r \in Rules : MarkUnreachable(r)
    \/ \E r \in Rules : CheckFail(r)
    \/ \E r \in Rules : Skip(r)
    \/ \E r \in Rules : DryRun(r)
    \/ \E r \in Rules : Start(r)
    \/ \E r \in Rules : \E W \in Writes(r) : FinishOk(r, W)
    \/ \E r \in Rules : \E W \in Writes(r) : FinishFail(r, W)
    \/ EndRun
    \/ Return
    \/ Tick
    \/ \E f \in Files, t \in 0..MaxTime : Touch(f, t)
    \/ \E f \in Tracked, h \in Hashes : Edit(f, h)
    \/ \E f \in Files : Remove(f)

Spec == Init /\ [][Next]_vars

\* The engine at rest while the tree is built.
RegInit ==
    /\ Init
    /\ ~opts.stop_on_fail
    /\ opts.nthreads = 1

RegNext ==
    \/ \E g \in Groups, name \in Names \cup {BadName}, path \in PathChoices,
          method \in MethodChoices, args \in ArgChoices :
            add(g, name, path, method, args)
    \/ \E g \in Groups, name \in Names \cup {BadName}, path_prefix \in PrefixChoices :
            add_group(g, name, path_prefix)

RegSpec == RegInit /\ [][RegNext]_vars

\* A step of the engine inside a run: a worker takes a ready rule, an invoked
\* method returns or raises, the engine ends the run.
EngineStep ==
    \/ \E r \in Rules : MarkUnreachable(r) \/ CheckFail(r) \/ Skip(r) \/ DryRun(r) \/ Start(r)
    \/ \E r \in Rules : \E W \in Writes(r) : FinishOk(r, W) \/ FinishFail(r, W)
    \/ EndRun

\* What a make call may find on disk: v there or not, the outputs of A absent,
\* reset by a failure or written, the other outputs absent or written.
FoundOnDisk ==
    {F \in [Files -> {Absent, [exists |-> TRUE, mtime |-> 0, hash |-> 0],
                               [exists |-> TRUE, mtime |-> 1, hash |-> 0]}] :
        \A f \in Files \ {"a1", "a2"} : F[f].exists => F[f].mtime = 1}

\* One make call on any such disk, with no cache record yet.
OneRunInit ==
    /\ fs \in FoundOnDisk
    /\ cache = [r \in Rules |-> NoCache]
    /\ clock = 1
    /\ phase = "idle"
    /\ opts \in [targets : {{}}, dry_run : {FALSE}, stop_on_fail : BOOLEAN,
                 nthreads : 1..MaxThreads]
    /\ state = [r \in Rules |-> "None"]
    /\ updated = {}
    /\ events = [r \in Rules |-> <<>>]
    /\ invoked = [r \in Rules |-> <<>>]
    /\ wrote = [r \in Rules |-> {}]
    /\ aborted = 0
    /\ runs = 0
    /\ envLeft = 0
    /\ prev = [valid |-> FALSE, targets |-> {}, dry_run |-> FALSE, ok |-> FALSE]
    /\ changed = FALSE
    /\ hist = [rerun |-> FALSE, prev_ok |-> FALSE]
    /\ tree = EmptyTree
    /\ last = NoCall

FirstRun(T, dry) == runs = 0 /\ StartRun(T, dry)

OneRunNext ==
    \/ \E T \in TargetChoices, dry \in BOOLEAN : FirstRun(T, dry)
    \/ EngineStep
    \/ Return
    \/ Tick

\* The engine keeps working while it can: every invoked method terminates and
\* a ready rule is taken.
FairSpec == OneRunInit /\ [][OneRunNext]_vars /\ WF_vars(EngineStep)

\* Any disk and any cache record a make call may find: the files of A, B and
\* v absent or with any mtime, v with either content; the record of B with,
\* for each of its tracked-content inputs, no entry or any entry.
DiskChoices ==
    {F \in [Files -> [exists : BOOLEAN, mtime : 0..MaxTime, hash : Hashes]] :
        /\ \A f \in Files : ~F[f].exists => F[f] = Absent
        /\ \A f \in Files \ {"v"} : F[f].hash = 0
        /\ ~F["c"].exists /\ ~F["x"].exists}

EntryChoices(k) ==
    {<<>>} \cup {<<[k |-> [tag |-> "list", segs |-> k], h |-> h, t |-> t]>> :
                    h \in Hashes, t \in 1..MaxTime}

RecordChoices ==
    {NoCache} \cup
    {[exists |-> TRUE, recs |-> e1 \o e2] :
        e1 \in EntryChoices(<<"1">>), e2 \in EntryChoices(<<"2", "p">>)}

AnyDiskInit ==
    /\ fs \in DiskChoices
    /\ cache \in {[r \in Rules |-> IF r = "B" THEN c ELSE NoCache] : c \in RecordChoices}
    /\ clock = MaxTime
    /\ phase = "idle"
    /\ opts = [targets |-> {}, dry_run |-> FALSE, stop_on_fail |-> FALSE, nthreads |-> 1]
    /\ state = [r \in Rules |-> "None"]
    /\ updated = {}
    /\ events = [r \in Rules |-> <<>>]
    /\ invoked = [r \in Rules |-> <<>>]
    /\ wrote = [r \in Rules |-> {}]
    /\ aborted = 0
    /\ runs = 0
    /\ envLeft = 0
    /\ prev = [valid |-> FALSE, targets |-> {}, dry_run |-> FALSE, ok |-> FALSE]
    /\ changed = FALSE
    /\ hist = [rerun |-> FALSE, prev_ok |-> FALSE]
    /\ tree = EmptyTree
    /\ last = NoCall

\* One make call of B, dry or not, on any such disk and cache.
AnyDiskNext ==
    \/ \E dry \in BOOLEAN : FirstRun({"B"}, dry)
    \/ \E r \in Rules : MarkUnreachable(r)
    \/ \E r \in Rules : CheckFail(r)
    \/ \E r \in Rules : Skip(r)
    \/ \E r \in Rules : DryRun(r)
    \/ \E r \in Rules : Start(r)
    \/ \E r \in Rules : \E W \in Writes(r) : FinishOk(r, W)
    \/ \E r \in Rules : \E W \in Writes(r) : FinishFail(r, W)
    \/ EndRun
    \/ Return

AnyDiskSpec == AnyDiskInit /\ [][AnyDiskNext]_vars

\* ================================================================ claims
InRun == phase \in {"running", "done"}

\* d depends on r, directly or through other rules.
DependsOn(d, r) == r # d /\ r \in closure({d})

\* An input of r that exists and carries the sentinel mtime 0.
SentinelInput(r) == \E x \in Range(xfiles(r)) : fs[x.f].exists /\ fs[x.f].mtime = 0

InputsExist(r) == \A x \in Range(xfiles(r)) : fs[x.f].exists

\* A dependency of r ended Failed or Unreachable.
BadDep(r) == \E d \in deplist(r) : state[d] \in {"Failed", "Unreachable"}

\* stop_on_fail is set and a rule is Failed.
FailObserved == opts.stop_on_fail /\ \E r \in Rules : state[r] = "Failed"

MethodStarted(r) == "method" \in Range(invoked[r])

\* C1: a rule leaves Pending (is evaluated, started or marked) only when every
\* dependency of it has reached a terminal state, whatever the interleaving
\* of the workers and whatever nthreads.
C1_DepsTerminalFirst ==
    \A r \in Rules :
        state[r] \notin {"Pending", "None"} =>
            \A d \in deplist(r) : state[d] \in Terminal

C1_Witness ==
    /\ opts.nthreads = 2
    /\ state["X"] = "Running"
    /\ state["B"] = "Running"
    /\ state["A"] = "Done"

\* C2: after a failed execution (the method started, the run did not succeed)
\* every output of the rule that is on disk has modification time zero.
C2_FailedOutputsZero ==
    \A r \in Rules :
        (InRun /\ state[r] = "Failed" /\ MethodStarted(r)) =>
            \A y \in YSet(r) : fs[y].exists => fs[y].mtime = 0

\* C3 as stated: a rule evaluated while an input carries the sentinel left by
\* a failed rule is judged stale, so it runs (or would run, in a dry run).
C3_SentinelJudgedStale ==
    \A r \in Rules :
        (InRun /\ envLeft = MaxEnv /\ InputsExist(r) /\ SentinelInput(r)
               /\ state[r] \in {"Running", "Done", "Failed", "Skipped"}) =>
            state[r] \in {"Running", "Done"}

\* C3 as amended: a rule with a sentinel input is never judged up to date and
\* never Skipped; a dry run judges it stale, outside a dry run should_update
\* raises, the rule ends Failed and its method and hooks are not invoked.
C3_SentinelNeverSkipped ==
    \A r \in Rules :
        (InRun /\ r \in subgraph /\ SentinelInput(r)) =>
            /\ verdict(r) \in (IF opts.dry_run THEN {"stale"}
                                ELSE {"invalid_input", "missing_input"})
            /\ state[r] \in {"Pending", "Unreachable"} \cup
                              (IF opts.dry_run THEN {"Done"} ELSE {"Failed"})
            /\ invoked[r] = <<>>

C3_Witness ==
    /\ InRun
    /\ envLeft = MaxEnv
    /\ InputsExist("B")
    /\ fs["a1"].mtime = 0
    /\ state["A"] = "Done"
    /\ state["B"] = "Failed"

\* C4 as stated: at the end of a run every rule with a dependency that ended
\* Failed or Unreachable is Unreachable.
C4_InfeasibleEndsUnreachable ==
    phase = "done" =>
        \A r \in subgraph : BadDep(r) => state[r] = "Unreachable"

\* C4 as amended: a rule with a dependency that ended Failed or Unreachable is
\* never evaluated or run, and ends Unreachable with one UpdateInfeasible
\* event, unless stop_on_fail halted the run first, and then it stays Pending
\* with no event; this reaches every transitive dependent. No other rule is
\* ever Unreachable.
C4_Unreachable ==
    InRun =>
        \A r \in subgraph :
            /\ BadDep(r) =>
                  /\ state[r] \in {"Pending", "Unreachable"}
                  /\ invoked[r] = <<>>
                  /\ state[r] = "Unreachable" =>
                        /\ emitted(r) = <<"UpdateInfeasible">>
                        /\ written(r, 1) = <<[level |-> "error", text |-> "Cannot make"]>>
                  /\ state[r] = "Pending" => emitted(r) = <<>>
                  /\ phase = "done" => (state[r] = "Unreachable" \/ FailObserved)
            /\ state[r] = "Unreachable" => BadDep(r)

C4_Witness ==
    /\ phase = "done"
    /\ ~opts.stop_on_fail
    /\ state["A"] = "Failed"
    /\ state["B"] = "Unreachable"
    /\ state["C"] = "Unreachable"
    /\ state["X"] = "Done"

\* C5 as stated: a second make of the same targets, both outside dry-run and
\* with no external change in between, skips every rule.
C5_SecondRunSkipsAll ==
    (phase = "done" /\ hist.rerun) =>
        \A r \in subgraph : state[r] = "Skipped"

\* C5 as amended: the same, provided the first run ended with every rule Done
\* or Skipped and every method it executed wrote all of its outputs, none
\* older than a plain input of its rule; then no method or hook is invoked.
C5_CleanSecondRunSkipsAll ==
    (InRun /\ hist.rerun /\ hist.prev_ok) =>
        \A r \in subgraph :
            /\ state[r] \in {"Pending", "Skipped"}
            /\ invoked[r] = <<>>
            /\ phase = "done" => state[r] = "Skipped"

C5_Witness ==
    /\ phase = "done"
    /\ hist.rerun /\ hist.prev_ok
    /\ opts.targets = {"C", "X"}
    /\ cache["B"].exists
    /\ \A r \in Rules : state[r] = "Skipped"

\* C6: in a dry run no step changes a file or a cache record, and no method,
\* pre-processing or post-processing is invoked.
C6_DryRunPure ==
    [][(phase = "running" /\ opts.dry_run) =>
          /\ fs' = fs
          /\ cache' = cache
          /\ \A r \in Rules : invoked'[r] = <<>> /\ wrote'[r] = {}]_vars

C6_Witness ==
    /\ phase = "done"
    /\ opts.dry_run
    /\ state["A"] = "Skipped"
    /\ state["B"] = "Done"
    /\ fs["b"].exists

\* C7: in a dry run, once a rule is in updated_rules, no rule depending on it
\* (directly or not) is Skipped, and each is in updated_rules once considered.
C7_DryRunPropagates ==
    (InRun /\ opts.dry_run) =>
        \A r \in updated : \A d \in subgraph :
            DependsOn(d, r) =>
                /\ state[d] \in {"Pending", "Done"}
                /\ state[d] = "Done" => d \in updated
                /\ phase = "done" => d \in updated

\* C is flagged although its own files are up to date.
C7_Witness ==
    /\ phase = "done"
    /\ opts.dry_run
    /\ "A" \in updated
    /\ "C" \in updated
    /\ should_update("C", {}, FALSE, fs, cache["C"]) = "uptodate"

\* C8: with stop_on_fail, once a rule is Failed no Pending rule is dispatched;
\* a rule that is Running then can still finish, and the run ends with one
\* StopOnFail event.
C8_NoDispatchAfterFail ==
    /\ [][FailObserved => \A r \in Rules : state[r] = "Pending" =>
                              state'[r] \in {"Pending", "None"}]_vars
    /\ [](FailObserved => \A r \in Rules : state[r] = "Running" =>
                              ENABLED FinishOk(r, YSet(r)))
    /\ []((phase = "done" /\ FailObserved) => aborted = 1)
    /\ [](aborted > 0 => FailObserved)

\* X has failed while A is still running and B waits.
C8_Witness ==
    /\ phase = "running"
    /\ FailObserved
    /\ state["X"] = "Failed"
    /\ state["A"] = "Running"
    /\ state["B"] = "Pending"

\* The inputs of r all exist with a non-sentinel mtime.
InputsValid(r) == \A x \in Range(xfiles(r)) : fs[x.f].exists /\ fs[x.f].mtime # 0

\* A plain input of r is newer than the oldest output of r.
PlainNewer(r) ==
    /\ \A y \in YSet(r) : fs[y].exists
    /\ \E x \in Range(xfiles(r)) :
          ~x.vfile /\ fs[x.f].mtime > Min({fs[y].mtime : y \in YSet(r)})

\* C9: with valid inputs, a plain input newer than the oldest output makes
\* the rule stale, whatever the cache record, dry run or not; the engine
\* never skips such a rule.
C9_PlainNewerStale ==
    \A r \in Rules :
        (InputsValid(r) /\ PlainNewer(r)) =>
            /\ \A dry \in BOOLEAN, U \in SUBSET deplist(r), c \in {cache[r], NoCache} :
                  should_update(r, U, dry, fs, c) = "stale"
            /\ InRun => state[r] # "Skipped"

C9_Witness ==
    /\ InputsValid("B") /\ PlainNewer("B")
    /\ cache["B"].exists
    /\ state["A"] = "Skipped"
    /\ state["B"] = "Running"

\* The step changes the mtime of file f and nothing else on disk or in a cache.
OnlyMtimeChanged(f) ==
    /\ fs'[f].mtime # fs[f].mtime
    /\ fs' = [fs EXCEPT ![f].mtime = fs'[f].mtime]
    /\ cache' = cache

\* The cache of r holds the current hash of its tracked-content input x.
CachedHashCurrent(r, x) ==
    \E e \in hash_dic(cache[r]) : e.k = [tag |-> "tuple", segs |-> x.k] /\ e.h = fs[x.f].hash

\* C10 as stated: a rule is up to date after a successful run; then the mtime
\* of a tracked-content input changes to any value, its hash still the cached
\* one; the rule is still judged up to date.
C10_MtimeOnlyAnyValue ==
    [][\A r \in Rules : \A x \in Range(xfiles(r)) :
          (/\ x.vfile
           /\ OnlyMtimeChanged(x.f)
           /\ CachedHashCurrent(r, x)
           /\ should_update(r, {}, FALSE, fs, cache[r]) = "uptodate") =>
              should_update(r, {}, FALSE, fs', cache'[r]) = "uptodate"]_vars

\* C10 as amended: the same for any new mtime other than the sentinel zero.
C10_MtimeOnlyNonZero ==
    [][\A r \in Rules : \A x \in Range(xfiles(r)) :
          (/\ x.vfile
           /\ OnlyMtimeChanged(x.f)
           /\ fs'[x.f].mtime # 0
           /\ CachedHashCurrent(r, x)
           /\ should_update(r, {}, FALSE, fs, cache[r]) = "uptodate") =>
              \A dry \in BOOLEAN : should_update(r, {}, dry, fs', cache'[r]) = "uptodate"]_vars

\* B is skipped with v touched to a time newer than b and other than the cached one.
C10_Witness ==
    /\ phase = "running"
    /\ state["B"] = "Skipped"
    /\ fs["v"].mtime > fs["b"].mtime
    /\ \E e \in hash_dic(cache["B"]) :
          e.k = [tag |-> "tuple", segs |-> <<"2", "p">>] /\ e.t # fs["v"].mtime

\* The positions of the inputs of r that are missing or carry mtime 0.
BadInputs(r) ==
    {i \in 1..Len(xfiles(r)) :
        ~fs[xfiles(r)[i].f].exists \/ fs[xfiles(r)[i].f].mtime = 0}

\* The filesystem with the outputs of r replaced by o.
WithOutputs(r, o) == [f \in Files |-> IF f \in YSet(r) THEN o ELSE fs[f]]

\* C11: with an input missing or at mtime 0, should_update never answers up to
\* date: a dry run gets stale, otherwise the error of the first such input is
\* raised (missing or invalid), whatever the outputs, the cache record and
\* updated_rules are.
C11_BadInputNeverUpToDate ==
    \A r \in Rules :
        BadInputs(r) # {} =>
            LET x == xfiles(r)[Min(BadInputs(r))]
                err == IF ~fs[x.f].exists THEN "missing_input" ELSE "invalid_input"
            IN \A U \in SUBSET deplist(r), c \in {cache[r], NoCache},
                  F \in {fs, WithOutputs(r, Absent),
                         WithOutputs(r, [exists |-> TRUE, mtime |-> MaxTime, hash |-> 0])} :
                   /\ should_update(r, U, TRUE, F, c) = "stale"
                   /\ should_update(r, U, FALSE, F, c) = err

\* B fails on its missing plain input although b and its cache record are there.
C11_Witness ==
    /\ phase = "running"
    /\ ~opts.dry_run
    /\ ~fs["a2"].exists
    /\ fs["a1"].exists /\ fs["a1"].mtime # 0
    /\ fs["b"].exists /\ fs["b"].mtime # 0
    /\ cache["B"].exists
    /\ state["B"] = "Failed"
    /\ emitted("B") = <<"PreProcError">>

\* Every call of add there is to make on this tree.
AddCalls ==
    [g : Groups, name : Names \cup {BadName}, path : PathChoices,
     method : MethodChoices, args : ArgChoices]

\* The call reaches create_rule: add is not hidden, the name is valid and
\* free, the method is callable, no output path is owned yet.
ReachesConstruction(c) ==
    /\ ~\E d \in tree.children : d.parent = c.g /\ d.name = "add" /\ d.name \in Identifiers
    /\ c.name \in Names
    /\ ~\E d \in tree.children : d.parent = c.g /\ d.name = c.name
    /\ c.method # "other"

\* The registered rules.
RegisteredRules == {c \in tree.children : c.kind = "rule"}

\* C12: add with an empty output structure never returns, and raises the
\* ValueError of create_rule when it gets there; every registered rule has an
\* output.
C12_OutputlessRejected ==
    /\ \A c \in AddCalls :
          c.path = <<>> =>
              LET res == add_result(c.g, c.name, c.path, c.method, c.args)
              IN /\ res.exc # "none"
                 /\ ReachesConstruction(c) => res.exc = "ValueError"
    /\ \A r \in RegisteredRules : Len(r.outputs) > 0

\* An outputless rule has just been refused in a tree that holds a rule.
C12_Witness ==
    /\ last = [exc |-> "ValueError", msg |-> "path must contain at least one str"]
    /\ RegisteredRules # {}

\* Every call of add_group there is to make on this tree.
AddGroupCalls == [g : Groups, name : Names \cup {BadName}, path_prefix : PrefixChoices]

\* The name is used by a child of group g.
NameUsed(g, name) == \E d \in tree.children : d.parent = g /\ d.name = name

\* Group g has a child whose name is attr, a member name.
Hidden(g, attr) ==
    \E d \in tree.children : d.parent = g /\ d.name = attr /\ d.name \in Identifiers

\* No two children of a group share a name.
OneChildPerName ==
    \A c1, c2 \in tree.children :
        (c1.parent = c2.parent /\ c1.name = c2.name) => c1 = c2

\* C13 as stated: a name has one child at most, and add or add_group under a
\* used name raises KeyError and leaves the tree as it is.
C13_UsedNameKeyError ==
    /\ OneChildPerName
    /\ \A c \in AddCalls :
          NameUsed(c.g, c.name) =>
              add_result(c.g, c.name, c.path, c.method, c.args).exc = "KeyError"
    /\ \A c \in AddGroupCalls :
          NameUsed(c.g, c.name) =>
              add_group_result(c.g, c.name, c.path_prefix).exc = "KeyError"

\* C13 as amended: a name has one child at most; add or add_group under a used
\* name raises KeyError, or TypeError when a child of the group is named like
\* the method called (the child hides the method); a call that raises leaves
\* the tree as it is.
C13_UsedNameRefused ==
    /\ []OneChildPerName
    /\ [](\A c \in AddCalls :
             NameUsed(c.g, c.name) =>
                 add_result(c.g, c.name, c.path, c.method, c.args).exc =
                     (IF Hidden(c.g, "add") THEN "TypeError" ELSE "KeyError"))
    /\ [](\A c \in AddGroupCalls :
             NameUsed(c.g, c.name) =>
                 add_group_result(c.g, c.name, c.path_prefix).exc =
                     (IF Hidden(c.g, "add_group") THEN "TypeError" ELSE "KeyError"))
    /\ [][last'.exc # "none" => tree' = tree]_vars

\* A call under the name of the sub-group "a" of the root has raised KeyError;
\* the sub-group is the one child of the root.
C13_Witness ==
    /\ last.exc = "KeyError"
    /\ \E c \in tree.children : c.parent = <<>> /\ c.name = "a" /\ c.kind = "group"
    /\ Cardinality({c \in tree.children : c.parent = <<>>}) = 1

\* C14: after a failed execution (the method started, the run did not
\* succeed) the rule has no cache record.
C14_FailedNoCache ==
    \A r \in Rules :
        (InRun /\ state[r] = "Failed" /\ MethodStarted(r)) => ~cache[r].exists

\* The cache entry of r under the DeepKey of its input x, as a set (empty or one).
CacheEntry(r, x) == {e \in hash_dic(cache[r]) : e.k = [tag |-> "tuple", segs |-> x.k]}

\* Nothing but the tracked-content input x can make r stale: the inputs are
\* valid, the outputs exist with a positive mtime, and no other input is newer
\* than the oldest output.
OnlyReason(r, x) ==
    /\ InputsValid(r)
    /\ \A y \in YSet(r) : fs[y].exists /\ fs[y].mtime > 0
    /\ \A x2 \in Range(xfiles(r)) :
          x2 # x => fs[x2.f].mtime <= Min({fs[y].mtime : y \in YSet(r)})

\* C15 as stated: a tracked-content input with a cache entry whose mtime
\* differs from the cached one makes the rule stale exactly when its hash
\* differs from the cached one.
C15_HashDecides ==
    \A r \in Rules : \A x \in Range(xfiles(r)) : \A e \in CacheEntry(r, x) :
        (x.vfile /\ OnlyReason(r, x) /\ fs[x.f].mtime # e.t) =>
            \A dry \in BOOLEAN :
                (should_update(r, {}, dry, fs, cache[r]) = "stale") <=> (fs[x.f].hash # e.h)

\* C15 as amended: the same for an input that is newer than the oldest output;
\* an input that is not newer is never looked up and never makes the rule stale.
C15_NewerHashDecides ==
    \A r \in Rules : \A x \in Range(xfiles(r)) : \A e \in CacheEntry(r, x) :
        (x.vfile /\ OnlyReason(r, x) /\ fs[x.f].mtime # e.t) =>
            \A dry \in BOOLEAN :
                (should_update(r, {}, dry, fs, cache[r]) = "stale") <=>
                    /\ fs[x.f].hash # e.h
                    /\ fs[x.f].mtime > Min({fs[y].mtime : y \in YSet(r)})

\* B runs again for the edited v alone: v is newer than b, its mtime and its
\* hash differ from the cached ones.
C15_Witness ==
    /\ phase = "running"
    /\ state["B"] = "Running"
    /\ OnlyReason("B", xfiles("B")[3])
    /\ fs["v"].mtime > fs["b"].mtime
    /\ \E e \in CacheEntry("B", xfiles("B")[3]) :
          e.t # fs["v"].mtime /\ e.h # fs["v"].hash

\* C16: in a run the rules in state Running are never more than the worker
\* count, which is nthreads for nthreads >= 2 and one otherwise.
C16_RunningBounded ==
    InRun =>
        /\ Cardinality({r \in Rules : state[r] = "Running"}) <=
              (IF opts.nthreads >= 2 THEN opts.nthreads ELSE 1)
        /\ opts.nthreads < 2 =>
              \A r1, r2 \in Rules :
                  (state[r1] = "Running" /\ state[r2] = "Running") => r1 = r2

\* One worker: X waits, with nothing left to wait for but the worker A holds.
C16_Witness ==
    /\ phase = "running"
    /\ opts.nthreads = 1
    /\ ~opts.dry_run
    /\ state["A"] = "Running"
    /\ state["X"] = "Pending"
    /\ verdict("X") = "stale"

\* The moves of a rule's state that C17 lists.
ListedMoves ==
    {<<"Pending", "Skipped">>, <<"Pending", "Running">>, <<"Running", "Done">>,
     <<"Running", "Failed">>, <<"Pending", "Unreachable">>}

\* The step stays inside one make call.
WithinRun == phase = "running" /\ phase' \in {"running", "done"}

\* How many times v occurs in the sequence s.
Count(s, v) == Cardinality({i \in 1..Len(s) : s[i] = v})

\* C17 as stated: inside one make call a rule's state changes along the
\* listed moves only.
C17_ListedMovesOnly ==
    [][WithinRun =>
          \A r \in Rules :
              state'[r] # state[r] => <<state[r], state'[r]>> \in ListedMoves]_vars

\* C17 as amended: the listed moves, and two that skip Running: Pending to
\* Failed when the staleness evaluation raises outside dry-run, Pending to
\* Done for a stale rule in a dry run; in both the method is not invoked. A
\* terminal state is never left, and the method is invoked at most once.
C17_Moves ==
    [][WithinRun =>
          \A r \in Rules :
              /\ state'[r] # state[r] =>
                    \/ <<state[r], state'[r]>> \in ListedMoves
                    \/ /\ state[r] = "Pending" /\ state'[r] = "Failed"
                       /\ ~opts.dry_run
                       /\ BadInputs(r) # {}
                       /\ invoked'[r] = <<>>
                    \/ /\ state[r] = "Pending" /\ state'[r] = "Done"
                       /\ opts.dry_run
                       /\ invoked'[r] = <<>>
              /\ state[r] \in {"Done", "Failed", "Skipped", "Unreachable"} =>
                    state'[r] = state[r]
              /\ state'[r] = "Running" => ~opts.dry_run
              /\ Count(invoked'[r], "method") <= 1
              /\ Count([i \in 1..Len(events'[r]) |-> events'[r][i].type], "Start") <= 1]_vars

\* One run with a rule on each path: A ran, B failed in its evaluation, C is
\* unreachable, X is skipped.
C17_Witness ==
    /\ phase = "done"
    /\ ~opts.dry_run
    /\ state["A"] = "Done"
    /\ state["B"] = "Failed" /\ invoked["B"] = <<>>
    /\ state["C"] = "Unreachable"
    /\ state["X"] = "Skipped"

\* The events that report a terminal transition; Start is informational.
TerminalEvents ==
    {"Skip", "Done", "DryRun", "UpdateInfeasible", "PreProcError", "ExecError",
     "PostProcError"}

\* The terminal event that belongs to rule r in its present state.
ExpectedEvent(r) ==
    CASE state[r] = "Skipped" -> "Skip"
      [] state[r] = "Unreachable" -> "UpdateInfeasible"
      [] state[r] = "Done" -> IF opts.dry_run THEN "DryRun" ELSE "Done"
      [] state[r] = "Failed" ->
           IF Count(invoked[r], "method") = 0 THEN "PreProcError"
           ELSE IF Count(invoked[r], "postprocess_succ") = 0 THEN "ExecError"
           ELSE "PostProcError"

C19_AllReachTerminal ==
    /\ (phase = "running" /\ ~opts.stop_on_fail) ~> (phase = "done")
    /\ []((phase = "done" /\ ~opts.stop_on_fail) =>
             \A r \in closure(opts.targets) :
                 /\ state[r] \in {"Done", "Failed", "Skipped", "Unreachable"}
                 /\ state[r] = "Unreachable" =>
                       \E d \in Rules : DependsOn(r, d) /\ state[d] = "Failed")

\* X fails and the chain it does not belong to is completed all the same.
C19_Witness ==
    /\ phase = "done"
    /\ ~opts.stop_on_fail
    /\ ~opts.dry_run
    /\ state["X"] = "Failed"
    /\ emitted("X")[1] = "Start"
    /\ emitted("C") = <<"Start", "Done">>
    /\ "X" \in Rules \ closure({"C"})

\* The real paths of the outputs of a registered rule.
RealOutputs(r) == {realpath(r.outputs[i]) : i \in 1..Len(r.outputs)}

\* The real paths the outputs of call c would have.
RealPathsOf(c) ==
    {realpath(_add_pfx_to_simple_path(_path_prefix(c.g), c.path[i])) : i \in 1..Len(c.path)}

\* C20: no real path is an output of two registered rules, in whatever groups
\* they are; the root's set holds the real paths of all registered outputs;
\* add with an output whose real path is owned never returns, and raises
\* ValueError when the call gets as far as the test of the paths.
C20_NoSharedOutput ==
    /\ \A r1, r2 \in RegisteredRules :
          r1 # r2 => RealOutputs(r1) \cap RealOutputs(r2) = {}
    /\ tree.path_str_set = UNION {RealOutputs(r) : r \in RegisteredRules}
    /\ \A c \in AddCalls :
          (RealPathsOf(c) \cap UNION {RealOutputs(r) : r \in RegisteredRules} # {}) =>
              LET res == add_result(c.g, c.name, c.path, c.method, c.args)
              IN /\ res.exc # "none"
                 /\ ReachesConstruction(c) => res.exc = "ValueError"

\* A rule of the root and a rule of a sub-group are registered, and a call
\* with an owned output path has just been refused.
C20_Witness ==
    /\ last = [exc |-> "ValueError", msg |-> "path is already used by another rule"]
    /\ \E r1, r2 \in RegisteredRules : r1.parent = <<>> /\ r2.parent # <<>>


\* ---------------------------------------------------------------- C21
\* The record c with the entry of DeepKey k removed (e = <<>>) or replaced.
WithEntry(c, k, e) ==
    [exists |-> TRUE,
     recs |-> SelectSeq(load_vfile_hashes(c), LAMBDA o : o.k.segs # k) \o e]

\* Two tracked-content inputs of r at different DeepKeys.
TrackedPairs(r) ==
    {p \in Range(xfiles(r)) \X Range(xfiles(r)) :
        IsV(p[1]) /\ IsV(p[2]) /\ p[1].k # p[2].k}

\* x comes before y in the inputs of r.
Before(r, x, y) ==
    \E i, j \in 1..Len(xfiles(r)) : i < j /\ xfiles(r)[i] = x /\ xfiles(r)[j] = y

\* C21 as stated: removing or changing the cache entry of one DeepKey changes
\* neither whether the hash of the rule's other tracked-content input is
\* recomputed by the evaluation nor whether that input makes the rule stale.
C21_OtherKeyIndependent ==
    \A r \in Rules : \A p \in TrackedPairs(r) : \A e \in EntryChoices(p[2].k) :
        LET c2 == WithEntry(cache[r], p[2].k, e)
        IN /\ vfile_changed(p[1], c2, fs) = vfile_changed(p[1], cache[r], fs)
           /\ (p[1] \in get_hash_calls(r, {}, FALSE, fs, c2))
                = (p[1] \in get_hash_calls(r, {}, FALSE, fs, cache[r]))

\* C21, amended: the decisions taken for an input (recompute its hash, count
\* it as changed) depend on the entry of its own DeepKey alone, and the
\* entry of a later input never changes whether an earlier input's hash is
\* recomputed; the entry of an earlier input can only end the evaluation
\* before the later input is examined.
C21_OwnEntryDecides ==
    \A r \in Rules : \A p \in TrackedPairs(r) : \A e \in EntryChoices(p[2].k) :
        LET c2 == WithEntry(cache[r], p[2].k, e)
            calls == get_hash_calls(r, {}, FALSE, fs, cache[r])
            calls2 == get_hash_calls(r, {}, FALSE, fs, c2)
        IN /\ vfile_changed(p[1], c2, fs) = vfile_changed(p[1], cache[r], fs)
           /\ hash_needed(p[1], c2, fs) = hash_needed(p[1], cache[r], fs)
           /\ Before(r, p[1], p[2]) => ((p[1] \in calls2) = (p[1] \in calls))
           /\ (p[1] \in calls) # (p[1] \in calls2)
                => /\ Before(r, p[2], p[1])
                   /\ vfile_changed(p[2], c2, fs) # vfile_changed(p[2], cache[r], fs)

\* Both tracked-content inputs of B are examined and hashed, the rule is up
\* to date, and removing the entry of the first ends the evaluation before
\* the second is hashed.
C21_Witness ==
    /\ phase = "idle"
    /\ should_update("B", {}, FALSE, fs, cache["B"]) = "uptodate"
    /\ Cardinality(get_hash_calls("B", {}, FALSE, fs, cache["B"])) = 2
    /\ get_hash_calls("B", {}, FALSE, fs, WithEntry(cache["B"], <<"1">>, <<>>)) = {}
    /\ should_update("B", {}, FALSE, fs, WithEntry(cache["B"], <<"1">>, <<>>)) = "stale"

\* ---------------------------------------------------------------- C22
\* Some declared output of r is absent, or the oldest output mtime is <= 0.
OutputsUnusable(r) ==
    \/ \E f \in YSet(r) : ~fs[f].exists
    \/ Min({fs[f].mtime : f \in YSet(r)}) <= 0

\* C22: with every input present and not at the sentinel mtime, a rule with
\* an absent output, or whose oldest output mtime is <= 0, is judged stale
\* whatever the input timestamps, the cache, the updated-set and the mode;
\* so a rule whose action failed is judged stale at its next evaluation,
\* even when one of its outputs exists with a recent mtime.
C22_UnusableOutputsStale ==
    \A r \in Rules : \A dry \in BOOLEAN : \A U \in SUBSET Rules :
        /\ InputsValid(r) /\ OutputsUnusable(r)
             => should_update(r, U, dry, fs, cache[r]) = "stale"
        /\ state[r] = "Failed" /\ MethodStarted(r) /\ InputsValid(r)
             => should_update(r, U, dry, fs, cache[r]) = "stale"

\* The action of A failed after writing a2 alone: a2 is on disk with the
\* current time, a1 is absent, and A is judged stale.
C22_Witness ==
    /\ state["A"] = "Failed" /\ MethodStarted("A")
    /\ ~fs["a1"].exists
    /\ fs["a2"].exists /\ fs["a2"].mtime = clock /\ clock > 0
    /\ should_update("A", {}, FALSE, fs, cache["A"]) = "stale"

\* ---------------------------------------------------------------- C23
\* The tracked-content inputs of r.
TrackedInputs(r) == {x \in Range(xfiles(r)) : IsV(x)}

\* The entry a success writes for x on the filesystem F, as read back.
FreshEntry(x, F) ==
    [k |-> [tag |-> "tuple", segs |-> x.k], h |-> F[x.f].hash, t |-> F[x.f].mtime]

\* C23: when the success post-processing of a rule with a tracked-content
\* input has run, the rule's cache record holds exactly one entry per
\* tracked-content input, with its DeepKey and the hash and mtime it has
\* then, and nothing of the record found before; a rule without
\* tracked-content input never has a record.
C23_RecordRewritten ==
    /\ [][\A r \in Rules :
            state[r] = "Running" /\ state'[r] = "Done" =>
                IF TrackedInputs(r) # {}
                THEN /\ cache'[r].exists
                     /\ Len(cache'[r].recs) = Cardinality(TrackedInputs(r))
                     /\ hash_dic(cache'[r]) = {FreshEntry(x, fs') : x \in TrackedInputs(r)}
                ELSE cache'[r] = cache[r]]_vars
    /\ [](\A r \in Rules : TrackedInputs(r) = {} => ~cache[r].exists)

\* B succeeded: its record has the two entries of a1 and v with their
\* current hash and mtime, and v is not newer than the output b.
C23_Witness ==
    /\ state["B"] = "Done" /\ MethodStarted("B")
    /\ fs["b"].exists /\ fs["v"].mtime < fs["b"].mtime
    /\ fs["v"].hash = 1
    /\ Len(cache["B"].recs) = 2
    /\ hash_dic(cache["B"]) = {FreshEntry(x, fs) : x \in TrackedInputs("B")}

\* ---------------------------------------------------------------- C24
\* The failure post-processing of r was called.
FailureHookRan(r) == "postprocess_fail" \in Range(invoked[r])

\* A rule that ended Failed had its failure post-processing called exactly
\* when its action was started.
FailureHookIffStarted ==
    \A r \in Rules : state[r] = "Failed" => (FailureHookRan(r) <=> MethodStarted(r))

\* A rule that ends Failed without its action having started keeps its
\* output mtimes and its cache record.
FailedEarlyUntouched ==
    [][\A r \in Rules :
          state[r] # "Failed" /\ state'[r] = "Failed" /\ ~MethodStarted(r)'
              => /\ \A y \in YSet(r) : fs'[y] = fs[y]
                 /\ cache'[r] = cache[r]]_vars

\* A rule that ends Failed after its action started has its output mtimes
\* at zero and no cache record.
FailedLateReset ==
    [][\A r \in Rules :
          state[r] # "Failed" /\ state'[r] = "Failed" /\ MethodStarted(r)'
              => /\ \A y \in YSet(r) : fs'[y].exists => fs'[y].mtime = 0
                 /\ ~cache'[r].exists]_vars

\* C24: the failure post-processing (output mtimes reset to zero, cache
\* record deleted) runs if and only if the rule's action was started: a rule
\* that ends Failed because the staleness evaluation or the pre-processing
\* raised keeps its output mtimes and its cache record; when the action or
\* the success post-processing raised, the mtimes are reset and the record
\* is deleted.
C24_ResetIffStarted ==
    /\ []FailureHookIffStarted
    /\ FailedEarlyUntouched
    /\ FailedLateReset

\* B failed after its action started and returned without creating b: the
\* record B had is still there.
C24_Witness ==
    /\ state["B"] = "Failed" /\ MethodStarted("B") /\ FailureHookRan("B")
    /\ ~fs["b"].exists
    /\ cache["B"].exists

\* ---------------------------------------------------------------- C25
\* The oldest mtime among the outputs of r.
OldestOutput(r) == Min({fs[y].mtime : y \in YSet(r)})

\* The four conditions of an up-to-date rule.
UpToDateConditions(r) ==
    /\ \A y \in YSet(r) : fs[y].exists
    /\ OldestOutput(r) > 0
    /\ \A x \in Range(xfiles(r)) : ~x.vfile => ~(fs[x.f].mtime > OldestOutput(r))
    /\ \A x \in Range(xfiles(r)) :
          (x.vfile /\ fs[x.f].mtime > OldestOutput(r)) =>
              \E e \in CacheEntry(r, x) : e.t = fs[x.f].mtime \/ e.h = fs[x.f].hash

\* C25: outside dry-run, with every input present and not at the sentinel
\* mtime, should_update answers "up to date" exactly when every output
\* exists, the oldest output mtime is above zero, no plain input is strictly
\* newer than the oldest output, and every tracked-content input strictly
\* newer than the oldest output has a cache entry under its DeepKey with the
\* same mtime or the same hash; whatever the updated-set.
C25_UpToDateExactly ==
    \A r \in Rules : \A U \in SUBSET Rules :
        InputsValid(r) =>
            /\ should_update(r, U, FALSE, fs, cache[r]) \in {"stale", "uptodate"}
            /\ (should_update(r, U, FALSE, fs, cache[r]) = "uptodate")
                   <=> UpToDateConditions(r)

\* B is up to date with the plain input a2 at the mtime of b, the
\* tracked-content input v newer than b with another mtime than the cached
\* one and the cached hash, and a1 not newer than b and without entry.
C25_Witness ==
    /\ phase = "idle"
    /\ InputsValid("B") /\ fs["b"].exists
    /\ fs["a2"].mtime = fs["b"].mtime
    /\ fs["v"].mtime > fs["b"].mtime
    /\ fs["a1"].mtime <= fs["b"].mtime
    /\ hash_dic(cache["B"]) =
          {[k |-> [tag |-> "tuple", segs |-> <<"2", "p">>], h |-> fs["v"].hash, t |-> 1]}
    /\ fs["v"].mtime # 1
    /\ should_update("B", Rules, FALSE, fs, cache["B"]) = "uptodate"

\* ---------------------------------------------------------------- C26
\* The causes of a rejection the claim lists.
ListedCauses ==
    {"name already exists", "path is already used by another rule",
     "method must be a callable", "path must contain at least one str",
     "Rule may not depend on Rules under different root Group",
     "is not be passed to the method"}

\* The causes found by create_rule in the arguments of the method.
ArgumentCauses ==
    {"Rule may not depend on Rules under different root Group",
     "Invalid keys for SELF", "is not be passed to the method"}

\* C26: a call of Group.add that raises, for whatever cause, leaves the
\* children of the group and the claimed paths of the root as they were, so
\* the same name and paths are registered by a later call without the fault;
\* no call that raises changes the tree.
C26_RejectedAddNoTrace ==
    /\ [](\A c \in AddCalls :
             LET res == add_result(c.g, c.name, c.path, c.method, c.args)
             IN res # Returned =>
                  /\ add_tree(c.g, c.name, c.path, c.method, c.args) = tree
                  /\ res.msg \in ArgumentCauses =>
                        add_result(c.g, c.name, c.path, c.method,
                                   [selfs |-> {}, dep |-> "none"]) = Returned)
    /\ [][last'.exc # "none" =>
             /\ tree'.children = tree.children
             /\ tree'.path_str_set = tree.path_str_set]_vars

\* The last call was rejected for an output path not passed via SELF, after
\* a rule was registered; every listed cause is met by some call in this
\* tree.
C26_Witness ==
    /\ last = Raised("ValueError", "is not be passed to the method")
    /\ RegisteredRules # {}
    /\ \A m \in ListedCauses : \E c \in AddCalls :
          /\ add_result(c.g, c.name, c.path, c.method, c.args).msg = m
          /\ add_tree(c.g, c.name, c.path, c.method, c.args) = tree
====
